---- MODULE Spec2Model ----
(***************************************************************************)
(* Model of the file-change engine of fluid-agent-cli:                     *)
(*   fileEngine/fileSystem.ts  resolveProjectPath, ensureDirectoryExists,  *)
(*                             writeFileSafe, deleteFileSafe               *)
(*   fileEngine/apply.ts       applyAgentResult, applySingleChange         *)
(*   cli/runCommand.ts         runCommand, readNpmConfigFlag               *)
(* Strings that the code inspects character by character (paths) are       *)
(* sequences of one-character strings; the host is POSIX (path.sep = "/"). *)
(***************************************************************************)
EXTENDS Integers, Sequences, FiniteSets, TLC

\* ------------------------------------------------------------------ bounds
\* most segments of a relativePath enumerated for the resolver
MaxPathSegs == 4
\* longest change list (result.files) handed to applyAgentResult
MaxChanges == 2

\* ------------------------------------------------------ strings and paths
sep == <<"/">>

\* process.cwd(): the absolute directory a relative rootDir is resolved against
Cwd == <<"/", "a">>

\* String.prototype.startsWith
StartsWith(s, prefix) ==
    /\ Len(prefix) <= Len(s)
    /\ SubSeq(s, 1, Len(prefix)) = prefix

\* mutant: only the first backslash is replaced
toPosixPathFirstOnly(filePath) ==
    [i \in 1..Len(filePath) |->
        IF filePath[i] = "\\" /\ \A j \in 1..(i - 1) : filePath[j] # "\\"
        THEN "/" ELSE filePath[i]]

\* filePath.replace(/\\/g, '/')
toPosixPath(filePath) ==
    [i \in 1..Len(filePath) |-> IF filePath[i] = "\\" THEN "/" ELSE filePath[i]]

\* the segments of s between "/" characters, empty segments included
RECURSIVE SplitFrom(_, _, _)
SplitFrom(s, i, cur) ==
    IF i > Len(s) THEN <<cur>>
    ELSE IF s[i] = "/" THEN <<cur>> \o SplitFrom(s, i + 1, <<>>)
    ELSE SplitFrom(s, i + 1, Append(cur, s[i]))

Split(s) == SplitFrom(s, 1, <<>>)

\* node:path normalizeString for an absolute path: "" and "." are skipped,
\* ".." drops the last kept segment (and is itself dropped at the top)
RECURSIVE NormalizeSegs(_, _)
NormalizeSegs(segs, acc) ==
    IF segs = <<>> THEN acc
    ELSE LET h == Head(segs)
             t == Tail(segs)
         IN  IF h = <<>> \/ h = <<".">> THEN NormalizeSegs(t, acc)
             ELSE IF h = <<".", ".">>
                  THEN NormalizeSegs(t, IF acc = <<>> THEN acc
                                        ELSE SubSeq(acc, 1, Len(acc) - 1))
                  ELSE NormalizeSegs(t, Append(acc, h))

RECURSIVE JoinSegs(_)
JoinSegs(segs) ==
    IF segs = <<>> THEN <<>>
    ELSE IF Len(segs) = 1 THEN Head(segs)
    ELSE Head(segs) \o sep \o JoinSegs(Tail(segs))

\* node:path posix resolve: arguments are taken from the right until one is
\* absolute, empty arguments are skipped, process.cwd() is the last resort
RECURSIVE ResolveConcat(_, _)
ResolveConcat(args, acc) ==
    IF args = <<>> THEN Cwd \o sep \o acc
    ELSE LET p == args[Len(args)]
             rest == SubSeq(args, 1, Len(args) - 1)
         IN  IF p = <<>> THEN ResolveConcat(rest, acc)
             ELSE IF p[1] = "/" THEN p \o sep \o acc
             ELSE ResolveConcat(rest, p \o sep \o acc)

PathResolve(args) == sep \o JoinSegs(NormalizeSegs(Split(ResolveConcat(args, <<>>)), <<>>))

NoError == "none"
InvalidPathError == "InvalidPathError"
FileSystemOperationError == "FileSystemOperationError"

\* mutant: the root itself is not inside the root
InsideRootBelowOnly(resolved, normalizedRoot) == StartsWith(resolved, normalizedRoot \o sep)

\* mutant: the resolved path is not tested at all
InsideRootUnchecked(resolved, normalizedRoot) == TRUE

\* mutant: the root is taken as a string prefix, without the separator
InsideRootByPrefix(resolved, normalizedRoot) == StartsWith(resolved, normalizedRoot)

\* the sandbox test of resolveProjectPath on the two resolved strings
InsideRoot(resolved, normalizedRoot) ==
    StartsWith(resolved, normalizedRoot \o sep) \/ resolved = normalizedRoot

resolveProjectPath(root, relativePath) ==
    LET normalized == toPosixPath(relativePath)
        resolved == PathResolve(<<root, normalized>>)
        normalizedRoot == PathResolve(<<root>>)
    IN  IF ~InsideRoot(resolved, normalizedRoot)
        THEN [error |-> InvalidPathError, path |-> <<>>]
        ELSE [error |-> NoError, path |-> resolved]

\* ------------------------------------------------------------ filesystem
\* A filesystem is a set of directories and a map from the paths of regular
\* files to their contents; paths are absolute and resolved.

\* path.dirname of a resolved absolute path
LastSep(p) == CHOOSE i \in 1..Len(p) : p[i] = "/" /\ \A j \in (i + 1)..Len(p) : p[j] # "/"

dirname(p) == IF LastSep(p) = 1 THEN <<"/">> ELSE SubSeq(p, 1, LastSep(p) - 1)

\* dir and every directory above it
RECURSIVE UpFrom(_)
UpFrom(dir) == IF dir = <<"/">> THEN {dir} ELSE {dir} \cup UpFrom(dirname(dir))

\* fs.mkdir(dir, { recursive: true }): every missing directory on the way is
\* created; a regular file on the way makes it fail (EEXIST, ENOTDIR)
mkdirRecursive(dir, D, F) ==
    IF UpFrom(dir) \cap DOMAIN F # {}
    THEN [error |-> "ENOTDIR", dirs |-> D]
    ELSE [error |-> NoError, dirs |-> D \cup UpFrom(dir)]

ensureDirectoryExists(filePath, D, F) == mkdirRecursive(dirname(filePath), D, F)

\* mutant: a file that is there is left as it is
fsWriteFileKeepingExisting(filePath, content, D, F) ==
    IF filePath \in D
    THEN [error |-> "EISDIR", files |-> F]
    ELSE [error |-> NoError,
          files |-> [q \in DOMAIN F \cup {filePath} |->
                        IF q \in DOMAIN F THEN F[q] ELSE content]]

\* fs.writeFile(filePath, content, 'utf8') once the parent directory exists:
\* the file is created or replaced whole; a directory cannot be written
fsWriteFile(filePath, content, D, F) ==
    IF filePath \in D
    THEN [error |-> "EISDIR", files |-> F]
    ELSE [error |-> NoError,
          files |-> [q \in DOMAIN F \cup {filePath} |->
                        IF q = filePath THEN content ELSE F[q]]]

\* fs.unlink(filePath)
fsUnlink(filePath, D, F) ==
    IF filePath \in DOMAIN F
    THEN [error |-> NoError, files |-> [q \in DOMAIN F \ {filePath} |-> F[q]]]
    ELSE IF filePath \in D THEN [error |-> "EISDIR", files |-> F]
    ELSE IF UpFrom(dirname(filePath)) \cap DOMAIN F # {}
         THEN [error |-> "ENOTDIR", files |-> F]
         ELSE [error |-> "ENOENT", files |-> F]

writeFileSafe(filePath, content, D, F) ==
    LET made == ensureDirectoryExists(filePath, D, F)
        written == fsWriteFile(filePath, content, made.dirs, F)
    IN  IF made.error # NoError
        THEN [error |-> FileSystemOperationError, dirs |-> made.dirs, files |-> F]
        ELSE IF written.error # NoError
        THEN [error |-> FileSystemOperationError, dirs |-> made.dirs, files |-> F]
        ELSE [error |-> NoError, dirs |-> made.dirs, files |-> written.files]

\* mutant: no failure of unlink is taken as success
deleteFileSafeStrict(filePath, D, F) ==
    LET removed == fsUnlink(filePath, D, F)
    IN  IF removed.error = NoError
        THEN [error |-> NoError, dirs |-> D, files |-> removed.files]
        ELSE [error |-> FileSystemOperationError, dirs |-> D, files |-> F]

\* mutant: every failure of unlink is taken as success
deleteFileSafeNormalizingAll(filePath, D, F) ==
    [error |-> NoError, dirs |-> D, files |-> fsUnlink(filePath, D, F).files]

deleteFileSafe(filePath, D, F) ==
    LET removed == fsUnlink(filePath, D, F)
    IN  IF removed.error = NoError \/ removed.error = "ENOENT"
        THEN [error |-> NoError, dirs |-> D, files |-> removed.files]
        ELSE [error |-> FileSystemOperationError, dirs |-> D, files |-> F]

\* ---------------------------------------------------------------- engine
\* An AgentFileChange is a record with the fields path and action and,
\* optionally, content and note; an absent field is absent from its DOMAIN.
HasContent(change) == "content" \in DOMAIN change

\* String.prototype.toUpperCase on the two actions it is applied to
toUpperCase(action) == IF action = "create" THEN "CREATE" ELSE "UPDATE"

\* the string handed to logger: a label, ": " and the path as given
LogLine(label, path) == <<label, ": ", path>>

\* what the switch of applySingleChange yields: the error thrown (or none),
\* the result returned (if any), the logger calls made and the filesystem
Thrown(error, D, F) ==
    [error |-> error, op |-> <<>>, log |-> <<>>, dirs |-> D, files |-> F]

Returned(op, log, D, F) ==
    [error |-> NoError, op |-> <<op>>, log |-> log, dirs |-> D, files |-> F]

\* mutant: a real write reports updated when the file existed and created
\* when it did not
applyWriteStatusByExistence(change, targetPath, dry, D, F) ==
    IF ~HasContent(change)
    THEN Returned([change |-> change, status |-> "skipped",
                   message |-> "Missing content for create/update action."],
                  <<>>, D, F)
    ELSE LET w == IF dry THEN [error |-> NoError, dirs |-> D, files |-> F]
                  ELSE writeFileSafe(targetPath, change.content, D, F)
         IN  IF w.error # NoError
             THEN Thrown(w.error, w.dirs, w.files)
             ELSE Returned([change |-> change,
                            status |-> IF dry
                                       THEN (IF change.action = "create"
                                             THEN "created" ELSE "updated")
                                       ELSE (IF targetPath \in DOMAIN F
                                             THEN "updated" ELSE "created"),
                            message |-> IF dry THEN "Dry-run: file would be written."
                                        ELSE "File written successfully."],
                           <<LogLine(toUpperCase(change.action), change.path)>>,
                           w.dirs, w.files)

\* mutant: the content is looked at only when the file is really written
applyWriteUncheckedDryRun(change, targetPath, dry, D, F) ==
    IF ~dry /\ ~HasContent(change)
    THEN Returned([change |-> change, status |-> "skipped",
                   message |-> "Missing content for create/update action."],
                  <<>>, D, F)
    ELSE LET w == IF dry THEN [error |-> NoError, dirs |-> D, files |-> F]
                  ELSE writeFileSafe(targetPath, change.content, D, F)
         IN  IF w.error # NoError
             THEN Thrown(w.error, w.dirs, w.files)
             ELSE Returned([change |-> change,
                            status |-> IF change.action = "create"
                                       THEN "created" ELSE "updated",
                            message |-> IF dry THEN "Dry-run: file would be written."
                                        ELSE "File written successfully."],
                           <<LogLine(toUpperCase(change.action), change.path)>>,
                           w.dirs, w.files)

\* mutant: an update of a file that is not there is skipped
applyWriteUpdateExistingOnly(change, targetPath, dry, D, F) ==
    IF ~HasContent(change)
    THEN Returned([change |-> change, status |-> "skipped",
                   message |-> "Missing content for create/update action."],
                  <<>>, D, F)
    ELSE IF change.action = "update" /\ targetPath \notin DOMAIN F
    THEN Returned([change |-> change, status |-> "skipped",
                   message |-> "File does not exist."],
                  <<>>, D, F)
    ELSE LET w == IF dry THEN [error |-> NoError, dirs |-> D, files |-> F]
                  ELSE writeFileSafe(targetPath, change.content, D, F)
         IN  IF w.error # NoError
             THEN Thrown(w.error, w.dirs, w.files)
             ELSE Returned([change |-> change,
                            status |-> IF change.action = "create"
                                       THEN "created" ELSE "updated",
                            message |-> IF dry THEN "Dry-run: file would be written."
                                        ELSE "File written successfully."],
                           <<LogLine(toUpperCase(change.action), change.path)>>,
                           w.dirs, w.files)

\* mutant: an empty content is taken as a missing one
applyWriteFalsyContent(change, targetPath, dry, D, F) ==
    IF ~HasContent(change) \/ change.content = ""
    THEN Returned([change |-> change, status |-> "skipped",
                   message |-> "Missing content for create/update action."],
                  <<>>, D, F)
    ELSE LET w == IF dry THEN [error |-> NoError, dirs |-> D, files |-> F]
                  ELSE writeFileSafe(targetPath, change.content, D, F)
         IN  IF w.error # NoError
             THEN Thrown(w.error, w.dirs, w.files)
             ELSE Returned([change |-> change,
                            status |-> IF change.action = "create"
                                       THEN "created" ELSE "updated",
                            message |-> IF dry THEN "Dry-run: file would be written."
                                        ELSE "File written successfully."],
                           <<LogLine(toUpperCase(change.action), change.path)>>,
                           w.dirs, w.files)

\* case 'create', case 'update'
applyWrite(change, targetPath, dry, D, F) ==
    IF ~HasContent(change)
    THEN Returned([change |-> change, status |-> "skipped",
                   message |-> "Missing content for create/update action."],
                  <<>>, D, F)
    ELSE LET w == IF dry THEN [error |-> NoError, dirs |-> D, files |-> F]
                  ELSE writeFileSafe(targetPath, change.content, D, F)
         IN  IF w.error # NoError
             THEN Thrown(w.error, w.dirs, w.files)
             ELSE Returned([change |-> change,
                            status |-> IF change.action = "create"
                                       THEN "created" ELSE "updated",
                            message |-> IF dry THEN "Dry-run: file would be written."
                                        ELSE "File written successfully."],
                           <<LogLine(toUpperCase(change.action), change.path)>>,
                           w.dirs, w.files)

\* mutant: the file is removed in dry-run mode too
applyDeleteIgnoringDryRun(change, targetPath, dry, D, F) ==
    LET r == deleteFileSafe(targetPath, D, F)
    IN  IF r.error # NoError
        THEN Thrown(r.error, r.dirs, r.files)
        ELSE Returned([change |-> change, status |-> "deleted",
                       message |-> IF dry THEN "Dry-run: file would be deleted."
                                   ELSE "File deleted (or already absent)."],
                      <<LogLine("DELETE", change.path)>>, r.dirs, r.files)

\* mutant: the logger is told of a delete before the file is removed
applyDeleteLoggingFirst(change, targetPath, dry, D, F) ==
    LET r == IF dry THEN [error |-> NoError, dirs |-> D, files |-> F]
             ELSE deleteFileSafe(targetPath, D, F)
    IN  IF r.error # NoError
        THEN [error |-> r.error, op |-> <<>>,
              log |-> <<LogLine("DELETE", change.path)>>,
              dirs |-> r.dirs, files |-> r.files]
        ELSE Returned([change |-> change, status |-> "deleted",
                       message |-> IF dry THEN "Dry-run: file would be deleted."
                                   ELSE "File deleted (or already absent)."],
                      <<LogLine("DELETE", change.path)>>, r.dirs, r.files)

\* case 'delete'
applyDelete(change, targetPath, dry, D, F) ==
    LET r == IF dry THEN [error |-> NoError, dirs |-> D, files |-> F]
             ELSE deleteFileSafe(targetPath, D, F)
    IN  IF r.error # NoError
        THEN Thrown(r.error, r.dirs, r.files)
        ELSE Returned([change |-> change, status |-> "deleted",
                       message |-> IF dry THEN "Dry-run: file would be deleted."
                                   ELSE "File deleted (or already absent)."],
                      <<LogLine("DELETE", change.path)>>, r.dirs, r.files)

\* mutant: an action the engine does not know has a message of its own
applySkipNamingUnknown(change, D, F) ==
    Returned([change |-> change, status |-> "skipped",
              message |-> IF change.action = "noop" THEN "No action (noop)."
                          ELSE "Unknown action."],
             <<LogLine(IF change.action = "noop" THEN "SKIP (noop)" ELSE "SKIP (unknown)",
                       change.path)>>, D, F)

\* mutant: an action the engine does not know is an error
applySkipRejectingUnknown(change, D, F) ==
    IF change.action # "noop" THEN Thrown("UnknownActionError", D, F)
    ELSE Returned([change |-> change, status |-> "skipped",
                   message |-> "No action (noop)."],
                  <<LogLine("SKIP (noop)", change.path)>>, D, F)

\* mutant: a noop is skipped without a word to the logger
applySkipSilent(change, D, F) ==
    Returned([change |-> change, status |-> "skipped", message |-> "No action (noop)."],
             <<>>, D, F)

\* case 'noop', default
applySkip(change, D, F) ==
    Returned([change |-> change, status |-> "skipped", message |-> "No action (noop)."],
             <<LogLine("SKIP (noop)", change.path)>>, D, F)

\* mutant: a change with no action is skipped before its path is resolved
applySingleChangeSkippingFirst(change, root, dry, D, F) ==
    IF change.action \notin {"create", "update", "delete"}
    THEN applySkip(change, D, F)
    ELSE LET target == resolveProjectPath(root, change.path)
         IN  IF target.error # NoError THEN Thrown(target.error, D, F)
             ELSE IF change.action \in {"create", "update"}
                  THEN applyWrite(change, target.path, dry, D, F)
             ELSE applyDelete(change, target.path, dry, D, F)

applySingleChange(change, root, dry, D, F) ==
    LET target == resolveProjectPath(root, change.path)
    IN  IF target.error # NoError THEN Thrown(target.error, D, F)
        ELSE IF change.action \in {"create", "update"}
             THEN applyWrite(change, target.path, dry, D, F)
        ELSE IF change.action = "delete"
             THEN applyDelete(change, target.path, dry, D, F)
        ELSE applySkip(change, D, F)

Statuses == {"created", "updated", "deleted", "skipped"}

\* operations.reduce(...): one is added to the count of each result's status
RECURSIVE CountOps(_, _)
CountOps(ops, acc) ==
    IF ops = <<>> THEN acc
    ELSE CountOps(Tail(ops), [acc EXCEPT ![Head(ops).status] = @ + 1])

ZeroCounts == [created |-> 0, updated |-> 0, deleted |-> 0, skipped |-> 0]

\* mutant: a summary without operations is taken for a dry run
MakeSummaryGuessingDryRun(ops, dry) ==
    [operations |-> ops, dryRun |-> (dry \/ ops = <<>>),
     counts |-> CountOps(ops, ZeroCounts)]

\* mutant: skipped results are left out of the counts
MakeSummaryDroppingSkipped(ops, dry) ==
    [operations |-> ops, dryRun |-> dry,
     counts |-> [CountOps(ops, ZeroCounts) EXCEPT !.skipped = 0]]

MakeSummary(ops, dry) ==
    [operations |-> ops, dryRun |-> dry, counts |-> CountOps(ops, ZeroCounts)]

\* ------------------------------------------------------------- variables
VARIABLES
    rRoot, rPath, rOut,     \* resolver: the two arguments and the outcome
    rootDir,                \* options.rootDir
    dirs, files,            \* the filesystem
    dirs0, files0,          \* the filesystem when the current call began
    changes,                \* result.files of the current call
    optionsDryRun,          \* options.dryRun as the caller gave it
    dryRun,                 \* the local dryRun of the current call
    operations,             \* the local array of applyAgentResult
    logged,                 \* the strings passed to logger by this call
    outcome,                \* "idle", "running", "returned" or the error thrown
    summary,                \* <<>> or <<the summary returned>>
    pc,                     \* runCommand: the statement it is at
    taskOrPrompt, options,  \* runCommand: its two arguments
    npmPromptFlag, npmChatFlag, effectivePrompt, taskFile, task, result,
                            \* runCommand: its locals
    caught,                 \* runCommand: what its catch clause has caught
    exitCode                \* the code the process ends with, 0 unless it is set

fsVars == <<dirs, files>>
callVars == <<dirs0, files0, changes, optionsDryRun, dryRun, operations, logged,
              outcome, summary>>
engineVars == <<rootDir, dirs, files, dirs0, files0, changes, optionsDryRun, dryRun, operations,
                logged, outcome, summary>>
resolverVars == <<rRoot, rPath, rOut>>
runVars == <<pc, taskOrPrompt, options, npmPromptFlag, npmChatFlag, effectivePrompt,
             taskFile, task, result, caught, exitCode>>
vars == <<rRoot, rPath, rOut, rootDir, dirs, files, dirs0, files0, changes,
          optionsDryRun, dryRun,
          operations, logged, outcome, summary, pc, taskOrPrompt, options,
          npmPromptFlag, npmChatFlag, effectivePrompt, taskFile, task, result,
          caught, exitCode>>

\* ---------------------------------------------------- runCommand, values
\* JavaScript's undefined, for an argument, an option or a variable that
\* holds a string or a boolean when it is set
Undefined == "undefined"

\* Boolean(v) and the truthiness of v, for v undefined, a boolean (written
\* "true", "false") or a string
Truthy(v) == v \notin {Undefined, "false", ""}

\* value.toLowerCase() on the values an npm_config_ variable is given here
toLowerCase(value) == IF value = "OFF" THEN "off" ELSE value

\* readNpmConfigFlag(name), from the value of process.env.npm_config_<name>
readNpmConfigFlag(value) ==
    IF value = Undefined THEN Undefined
    ELSE IF value = "" THEN "true"
    ELSE IF toLowerCase(value) \in {"true", "1", "yes", "on"} THEN "true"
    ELSE IF toLowerCase(value) \in {"false", "0", "no", "off"} THEN "false"
    ELSE "true"

\* a ?? b
Coalesce(a, b) == IF a = Undefined THEN b ELSE a

\* buildPromptTask(text, taskType): the task of an ad-hoc prompt
buildPromptTask(text, taskType) == [taskType |-> taskType]

NoTask == [taskType |-> Undefined]

NoResult == [mode |-> Undefined, trace |-> <<>>, files |-> <<>>]

\* runCommand has not been called
RunIdle ==
    /\ pc = "idle"
    /\ taskOrPrompt = Undefined
    /\ options = [write |-> Undefined, yes |-> Undefined, chat |-> Undefined,
                  prompt |-> Undefined]
    /\ npmPromptFlag = Undefined
    /\ npmChatFlag = Undefined
    /\ effectivePrompt = Undefined
    /\ taskFile = Undefined
    /\ task = NoTask
    /\ result = NoResult
    /\ caught = "nothing"
    /\ exitCode = 0

\* ------------------------------------------------------- engine, inputs
EngineRoot == <<"/", "n", "/", "r">>

\* paths an agent may name: two files that can coexist, a name that is a
\* file or the directory of the second, and a path that leaves the root
EnginePaths ==
    { <<"a">>, <<"d">>, <<"d", "/", "a">>, <<".", ".", "/", "x">> }

\* the changes an agent may ask for: on every path a delete and, with
\* content, a create and an update (on d the content is the empty string);
\* on some a noop, an action the engine does not know, a create or an update
\* without content, and an extra field
EngineChanges ==
    { [path |-> p, action |-> "delete"] : p \in EnginePaths }
    \cup { [path |-> p, action |-> "update", content |-> "x"] :
                p \in EnginePaths \ {<<"d">>} }
    \cup { [path |-> p, action |-> "create", content |-> "x"] :
                p \in EnginePaths \ {<<"a">>} }
    \cup { [path |-> <<"d">>, action |-> "update", content |-> ""],
           [path |-> <<"a">>, action |-> "create", content |-> "x", note |-> "n"],
           [path |-> <<"a">>, action |-> "noop"],
           [path |-> <<".", ".", "/", "x">>, action |-> "noop"],
           [path |-> <<"d", "/", "a">>, action |-> "rename"],
           [path |-> <<"d", "/", "a">>, action |-> "create"],
           [path |-> <<".", ".", "/", "x">>, action |-> "create"],
           [path |-> <<"a">>, action |-> "update"] }

ChangeLists == UNION { [1..n -> EngineChanges] : n \in 0..MaxChanges }

EmptyFiles == [q \in {} |-> ""]

\* the filesystem before the first call: the root directory is missing
\* together with its parent, or present beside a file outside it, empty or
\* holding a file
InitialFilesystems ==
    { [dirs |-> {<<"/">>}, files |-> EmptyFiles],
      [dirs |-> {<<"/">>, <<"/", "n">>, EngineRoot},
       files |-> [q \in {<<"/", "n", "/", "x">>} |-> "o"]],
      [dirs |-> {<<"/">>, <<"/", "n">>, EngineRoot},
       files |-> [q \in {<<"/", "n", "/", "x">>, EngineRoot \o <<"/", "a">>} |-> "o"]] }

ResolverIdle ==
    /\ rRoot = <<"/">>
    /\ rPath = <<>>
    /\ rOut = [error |-> "not called", path |-> <<>>]

Init ==
    /\ ResolverIdle
    /\ RunIdle
    /\ rootDir = EngineRoot
    /\ \E fs \in InitialFilesystems : dirs = fs.dirs /\ files = fs.files
    /\ dirs0 = dirs
    /\ files0 = files
    /\ changes = <<>>
    /\ optionsDryRun = Undefined
    /\ dryRun = FALSE
    /\ operations = <<>>
    /\ logged = <<>>
    /\ outcome = "idle"
    /\ summary = <<>>

\* options.dryRun: omitted, or a boolean
DryRunOptions == {Undefined, "false", "true"}

\* const { dryRun = false } = options
dryRunOrFalse(given) == IF given = Undefined THEN FALSE ELSE given = "true"

\* applyAgentResult(result, options) is called by a caller that is not
\* waiting for an earlier call.  An empty result.files returns at once.
Call ==
    /\ outcome = "idle"
    /\ \E cs \in ChangeLists, given \in DryRunOptions :
        /\ changes' = cs
        /\ optionsDryRun' = given
        /\ dryRun' = dryRunOrFalse(given)
        /\ outcome' = IF cs = <<>> THEN "returned" ELSE "running"
        /\ summary' = IF cs = <<>>
                      THEN <<MakeSummary(<<>>, dryRunOrFalse(given))>> ELSE <<>>
    /\ operations' = <<>>
    /\ logged' = <<>>
    /\ dirs0' = dirs
    /\ files0' = files
    /\ UNCHANGED <<rootDir, dirs, files, resolverVars, runVars>>

\* mutant: a result is put at the front of operations
StepUnshift ==
    /\ outcome = "running"
    /\ \E r \in {applySingleChange(changes[Len(operations) + 1],
                                    rootDir, dryRun, dirs, files)} :
        LET ops == r.op \o operations
        IN  /\ dirs' = r.dirs
            /\ files' = r.files
            /\ logged' = logged \o r.log
            /\ operations' = ops
            /\ outcome' = IF r.error # NoError THEN r.error
                          ELSE IF Len(ops) = Len(changes) THEN "returned"
                          ELSE "running"
            /\ summary' = IF r.error = NoError /\ Len(ops) = Len(changes)
                          THEN <<MakeSummary(ops, dryRun)>> ELSE <<>>
    /\ UNCHANGED <<rootDir, dirs0, files0, changes, optionsDryRun, dryRun,
                   resolverVars, runVars>>

\* mutant: an error ends the loop and the results so far are returned
StepPartialSummary ==
    /\ outcome = "running"
    /\ \E r \in {applySingleChange(changes[Len(operations) + 1],
                                    rootDir, dryRun, dirs, files)} :
        LET ops == operations \o r.op
        IN  /\ dirs' = r.dirs
            /\ files' = r.files
            /\ logged' = logged \o r.log
            /\ operations' = ops
            /\ outcome' = IF r.error # NoError THEN "returned"
                          ELSE IF Len(ops) = Len(changes) THEN "returned"
                          ELSE "running"
            /\ summary' = IF r.error # NoError \/ Len(ops) = Len(changes)
                          THEN <<MakeSummary(ops, dryRun)>> ELSE <<>>
    /\ UNCHANGED <<rootDir, dirs0, files0, changes, optionsDryRun, dryRun,
                   resolverVars, runVars>>

\* mutant: an error puts the filesystem back as the call found it
StepRollingBack ==
    /\ outcome = "running"
    /\ \E r \in {applySingleChange(changes[Len(operations) + 1],
                                    rootDir, dryRun, dirs, files)} :
        LET ops == operations \o r.op
        IN  /\ dirs' = IF r.error # NoError THEN dirs0 ELSE r.dirs
            /\ files' = IF r.error # NoError THEN files0 ELSE r.files
            /\ logged' = logged \o r.log
            /\ operations' = ops
            /\ outcome' = IF r.error # NoError THEN r.error
                          ELSE IF Len(ops) = Len(changes) THEN "returned"
                          ELSE "running"
            /\ summary' = IF r.error = NoError /\ Len(ops) = Len(changes)
                          THEN <<MakeSummary(ops, dryRun)>> ELSE <<>>
    /\ UNCHANGED <<rootDir, dirs0, files0, changes, optionsDryRun, dryRun,
                   resolverVars, runVars>>

\* mutant: the list is gone through from its end
StepBackwards ==
    /\ outcome = "running"
    /\ \E r \in {applySingleChange(changes[Len(changes) - Len(operations)],
                                    rootDir, dryRun, dirs, files)} :
        LET ops == operations \o r.op
        IN  /\ dirs' = r.dirs
            /\ files' = r.files
            /\ logged' = logged \o r.log
            /\ operations' = ops
            /\ outcome' = IF r.error # NoError THEN r.error
                          ELSE IF Len(ops) = Len(changes) THEN "returned"
                          ELSE "running"
            /\ summary' = IF r.error = NoError /\ Len(ops) = Len(changes)
                          THEN <<MakeSummary(ops, dryRun)>> ELSE <<>>
    /\ UNCHANGED <<rootDir, dirs0, files0, changes, optionsDryRun, dryRun,
                   resolverVars, runVars>>

\* one turn of the loop over result.files: applySingleChange on the next
\* change, then operations.push; after the last change the counts are
\* tallied and the summary is returned; an error ends the call
Step ==
    /\ outcome = "running"
    /\ \E r \in {applySingleChange(changes[Len(operations) + 1],
                                    rootDir, dryRun, dirs, files)} :
        LET ops == operations \o r.op
        IN  /\ dirs' = r.dirs
            /\ files' = r.files
            /\ logged' = logged \o r.log
            /\ operations' = ops
            /\ outcome' = IF r.error # NoError THEN r.error
                          ELSE IF Len(ops) = Len(changes) THEN "returned"
                          ELSE "running"
            /\ summary' = IF r.error = NoError /\ Len(ops) = Len(changes)
                          THEN <<MakeSummary(ops, dryRun)>> ELSE <<>>
    /\ UNCHANGED <<rootDir, dirs0, files0, changes, optionsDryRun, dryRun,
                   resolverVars, runVars>>

\* the caller takes the summary or the error of the finished call and goes
\* on; the filesystem stays as the call left it
Settle ==
    /\ outcome \notin {"idle", "running"}
    /\ changes' = <<>>
    /\ optionsDryRun' = Undefined
    /\ dryRun' = FALSE
    /\ operations' = <<>>
    /\ logged' = <<>>
    /\ outcome' = "idle"
    /\ summary' = <<>>
    /\ dirs0' = dirs
    /\ files0' = files
    /\ UNCHANGED <<rootDir, dirs, files, resolverVars, runVars>>

Next == Call \/ Step \/ Settle

Spec == Init /\ [][Next]_vars

\* ------------------------------------------------------------ runCommand
\* option values as commander hands them over: a flag is false or true (or
\* undefined when runCommand is called without it), --prompt is undefined,
\* true when given without text, or its text
Flags == {"false", "true"}

PromptTexts == {"", "p"}

\* values of the npm_config_prompt, npm_config_p and npm_config_chat
\* variables of the environment
NpmConfigValues == {Undefined, "", "yes", "OFF", "x"}

\* what loadTask gives for a task file: the task, or one of its errors
LoadOutcomes ==
    { [error |-> NoError, task |-> [taskType |-> t]] :
          t \in {Undefined, "chat", "execution"} }
    \cup { [error |-> "Task file not found", task |-> NoTask],
           [error |-> "Failed to parse", task |-> NoTask] }

\* what the runtime may return: the mode of the result, the phases of its
\* trace and, in execution mode, its file changes
Modes == {"chat", "execution", Undefined}

Traces == { <<>>, <<"llm_call">>, <<"llm_call", "error">> }

RunChanges ==
    { [path |-> <<"a">>, action |-> "update", content |-> "x"],
      [path |-> <<"a">>, action |-> "delete"],
      [path |-> <<".", ".", "/", "x">>, action |-> "create", content |-> "x"] }

RunChangeLists == UNION { [1..n -> RunChanges] : n \in 0..MaxChanges }

InitRun ==
    /\ ResolverIdle
    /\ rootDir = EngineRoot
    /\ \E fs \in InitialFilesystems : dirs = fs.dirs /\ files = fs.files
    /\ dirs0 = dirs
    /\ files0 = files
    /\ changes = <<>>
    /\ optionsDryRun = Undefined
    /\ dryRun = FALSE
    /\ operations = <<>>
    /\ logged = <<>>
    /\ outcome = "idle"
    /\ summary = <<>>
    /\ pc = "input"
    /\ taskOrPrompt \in {Undefined, "t"}
    /\ options \in [write : Flags \cup {Undefined}, yes : Flags, chat : Flags,
                    prompt : {Undefined, "true"} \cup PromptTexts]
    /\ npmPromptFlag = Undefined
    /\ npmChatFlag = Undefined
    /\ effectivePrompt = Undefined
    /\ taskFile = Undefined
    /\ task = NoTask
    /\ result = NoResult
    /\ caught = "nothing"
    /\ exitCode = 0

\* the flags npm may have swallowed are read back, and the prompt text or
\* the task file is told from the first argument and --prompt; an input
\* that gives neither or both is an error, caught at the end of runCommand
RunInput ==
    /\ pc = "input"
    /\ \E envPrompt \in NpmConfigValues, envP \in NpmConfigValues,
          envChat \in NpmConfigValues :
        LET promptFlag == Coalesce(readNpmConfigFlag(envPrompt), readNpmConfigFlag(envP))
            chatFlag == readNpmConfigFlag(envChat)
            opts == [options EXCEPT
                       !.chat = IF ~Truthy(@) /\ Truthy(chatFlag) THEN "true" ELSE @,
                       !.prompt = IF @ = Undefined /\ Truthy(promptFlag)
                                  THEN "true" ELSE @]
            promptValue == IF opts.prompt \in PromptTexts THEN opts.prompt ELSE Undefined
            promptFlagOnly == opts.prompt = "true"
            prompt == IF promptFlagOnly /\ Truthy(taskOrPrompt)
                      THEN taskOrPrompt ELSE promptValue
            file == IF promptFlagOnly /\ Truthy(taskOrPrompt)
                    THEN Undefined ELSE taskOrPrompt
            thrown == \/ promptFlagOnly /\ ~Truthy(taskOrPrompt)
                      \/ ~Truthy(prompt) /\ ~Truthy(file)
                      \/ Truthy(prompt) /\ Truthy(file)
        IN  /\ npmPromptFlag' = promptFlag
            /\ npmChatFlag' = chatFlag
            /\ options' = opts
            /\ effectivePrompt' = prompt
            /\ taskFile' = file
            /\ pc' = IF thrown THEN "exited" ELSE "load"
            /\ caught' = IF thrown THEN "input" ELSE caught
            /\ exitCode' = IF thrown THEN 1 ELSE exitCode
    /\ UNCHANGED <<taskOrPrompt, task, result, engineVars, resolverVars>>

\* the task is built from the prompt or loaded from the task file; a file
\* that is not found is taken as a prompt when npm has swallowed flags
RunLoad ==
    /\ pc = "load"
    /\ \E loaded \in LoadOutcomes :
        LET promptMode == IF Truthy(options.chat) THEN "chat" ELSE "execution"
            isNotFound == loaded.error = "Task file not found"
            asPrompt == isNotFound /\ (Truthy(npmPromptFlag) \/ Truthy(npmChatFlag))
            thrown == IF Truthy(effectivePrompt) THEN FALSE
                      ELSE IF Truthy(taskFile) THEN loaded.error # NoError /\ ~asPrompt
                      ELSE TRUE
        IN  /\ task' = IF thrown THEN task
                       ELSE IF Truthy(effectivePrompt)
                            THEN buildPromptTask(effectivePrompt, promptMode)
                       ELSE IF asPrompt THEN buildPromptTask(taskFile, promptMode)
                       ELSE loaded.task
            /\ pc' = IF thrown THEN "exited" ELSE "run"
            /\ caught' = IF thrown THEN "load" ELSE caught
            /\ exitCode' = IF thrown THEN 1 ELSE exitCode
    /\ UNCHANGED <<taskOrPrompt, options, npmPromptFlag, npmChatFlag, effectivePrompt,
                   taskFile, result, engineVars, resolverVars>>

\* mutant: write mode unless --write is given as false
writeModeUnlessFalse(opts) == opts.write # "false"

\* const writeMode = Boolean(options.write)
writeMode(opts) == Truthy(opts.write)

\* result.trace?.some((t) => t.phase === 'error')
hasErrorTrace(r) == \E i \in 1..Len(r.trace) : r.trace[i] = "error"

\* mutant: a chat result goes on to the file changes
RunTaskThroughChat ==
    /\ pc = "run"
    /\ \E failed \in BOOLEAN, mode \in Modes, trace \in Traces, fl \in RunChangeLists :
        LET r == [mode |-> mode, trace |-> trace,
                  files |-> IF mode = "execution" THEN fl ELSE <<>>]
        IN  /\ result' = IF failed THEN result ELSE r
            /\ pc' = IF failed THEN "exited" ELSE "apply"
            /\ caught' = IF failed THEN "runtime" ELSE caught
            /\ exitCode' = IF failed THEN 1 ELSE exitCode
    /\ UNCHANGED <<taskOrPrompt, options, npmPromptFlag, npmChatFlag, effectivePrompt,
                   taskFile, task, engineVars, resolverVars>>

\* runTask is awaited: it throws, or returns a result; in chat mode (by the
\* task type or by the mode of the result) runCommand returns at once
RunTask ==
    /\ pc = "run"
    /\ \E failed \in BOOLEAN, mode \in Modes, trace \in Traces, fl \in RunChangeLists :
        LET r == [mode |-> mode, trace |-> trace,
                  files |-> IF mode = "execution" THEN fl ELSE <<>>]
            isChatMode == task.taskType = "chat" \/ r.mode = "chat"
        IN  /\ result' = IF failed THEN result ELSE r
            /\ pc' = IF failed \/ isChatMode THEN "exited" ELSE "apply"
            /\ caught' = IF failed THEN "runtime" ELSE caught
            /\ exitCode' = IF failed THEN 1 ELSE exitCode
    /\ UNCHANGED <<taskOrPrompt, options, npmPromptFlag, npmChatFlag, effectivePrompt,
                   taskFile, task, engineVars, resolverVars>>

\* a result in execution mode is handed to applyAgentResult with rootDir,
\* dryRun: !writeMode and the logger; any other result goes to the end
RunApply ==
    /\ pc = "apply"
    /\ IF result.mode = "execution"
       THEN /\ pc' = "applying"
            /\ changes' = result.files
            /\ optionsDryRun' = IF writeMode(options) THEN "false" ELSE "true"
            /\ dryRun' = ~writeMode(options)
            /\ operations' = <<>>
            /\ logged' = <<>>
            /\ dirs0' = dirs
            /\ files0' = files
            /\ outcome' = IF result.files = <<>> THEN "returned" ELSE "running"
            /\ summary' = IF result.files = <<>>
                          THEN <<MakeSummary(<<>>, ~writeMode(options))>> ELSE <<>>
            /\ UNCHANGED <<rootDir, dirs, files>>
       ELSE /\ pc' = "finish"
            /\ UNCHANGED engineVars
    /\ UNCHANGED <<taskOrPrompt, options, npmPromptFlag, npmChatFlag, effectivePrompt,
                   taskFile, task, result, caught, exitCode, resolverVars>>

\* the end of runCommand: an error thrown by applyAgentResult is caught and
\* the process exits with 1; otherwise it exits with 1 when the trace of the
\* result has an error phase, and ends normally when it has none
RunFinish ==
    /\ \/ pc = "finish"
       \/ pc = "applying" /\ outcome \notin {"idle", "running"}
    /\ pc' = "exited"
    /\ caught' = IF pc = "applying" /\ outcome # "returned" THEN outcome ELSE caught
    /\ exitCode' = IF pc = "applying" /\ outcome # "returned" THEN 1
                   ELSE IF hasErrorTrace(result) THEN 1
                   ELSE exitCode
    /\ UNCHANGED <<taskOrPrompt, options, npmPromptFlag, npmChatFlag, effectivePrompt,
                   taskFile, task, result, engineVars, resolverVars>>

NextRun == RunInput \/ RunLoad \/ RunTask \/ RunApply \/ Step \/ RunFinish

SpecRun == InitRun /\ [][NextRun]_vars

\* ------------------------------------------- resolver, as a pure function
\* relative paths as an agent writes them: segments that are empty, ".",
\* "..", plain names (one a string prefix of the other) or a name that only
\* starts with "..", joined by "/" or "\\"
PathSegments ==
    { <<>>, <<".">>, <<".", ".">>, <<"b">>, <<"b", "c">>, <<".", ".", "b">> }

Separators == { <<"/">>, <<"\\">> }

RECURSIVE JoinWith(_, _)
JoinWith(segs, seps) ==
    IF Len(segs) = 1 THEN segs[1]
    ELSE segs[1] \o seps[1] \o JoinWith(Tail(segs), Tail(seps))

\* root directories: the filesystem root, absolute roots, one with a trailing
\* separator and one relative to process.cwd()
ResolverRoots ==
    { <<"/">>, <<"/", "b">>, <<"/", "a", "/", "b">>, <<"/", "b", "/">>, <<"b">> }

NotCalled == [error |-> "not called", path |-> <<>>]

EngineIdle ==
    /\ rootDir = EngineRoot
    /\ dirs = {<<"/">>}
    /\ files = EmptyFiles
    /\ dirs0 = dirs
    /\ files0 = files
    /\ changes = <<>>
    /\ optionsDryRun = Undefined
    /\ dryRun = FALSE
    /\ operations = <<>>
    /\ logged = <<>>
    /\ outcome = "idle"
    /\ summary = <<>>

InitResolve ==
    /\ rRoot \in ResolverRoots
    /\ \E n \in 1..MaxPathSegs :
         \E segs \in [1..n -> PathSegments], seps \in [1..(n - 1) -> Separators] :
            rPath = JoinWith(segs, seps)
    /\ rOut = NotCalled
    /\ EngineIdle
    /\ RunIdle

ResolveCall ==
    /\ rOut = NotCalled
    /\ rOut' = resolveProjectPath(rRoot, rPath)
    /\ UNCHANGED <<rRoot, rPath, engineVars, runVars>>

NextResolve == ResolveCall

SpecResolve == InitResolve /\ [][NextResolve]_vars

\* ================================================================ claims
\* The directory tree read independently of path strings: a location is
\* the sequence of names leading to it from the filesystem root.
IsAbsolute(s) == s # <<>> /\ s[1] = "/"

RECURSIVE Go(_, _)
Go(at, names) ==
    IF names = <<>> THEN at
    ELSE LET n == Head(names)
         IN  Go(IF n = <<>> \/ n = <<".">> THEN at
                ELSE IF n = <<".", ".">>
                     THEN (IF at = <<>> THEN at ELSE SubSeq(at, 1, Len(at) - 1))
                     ELSE Append(at, n),
                Tail(names))

\* where the root directory is
DirOf(root) == Go(<<>>, IF IsAbsolute(root) THEN Split(root) ELSE Split(Cwd) \o Split(root))

\* where relativePath leads from the root directory, either separator accepted
TargetOf(root, p) ==
    LET q == [i \in 1..Len(p) |-> IF p[i] = "\\" THEN "/" ELSE p[i]]
    IN  Go(IF IsAbsolute(q) THEN <<>> ELSE DirOf(root), Split(q))

\* loc is dir or lies below it
Under(dir, loc) == Len(dir) <= Len(loc) /\ SubSeq(loc, 1, Len(dir)) = dir

RECURSIVE PathOf(_)
PathOf(loc) == IF loc = <<>> THEN <<"/">>
               ELSE IF Len(loc) = 1 THEN <<"/">> \o loc[1]
               ELSE PathOf(SubSeq(loc, 1, Len(loc) - 1)) \o <<"/">> \o loc[Len(loc)]

IsRelative(p) == ~(p # <<>> /\ p[1] \in {"/", "\\"})

\* C2: resolveProjectPath fails with InvalidPathError for every path whose
\* location, after separator normalization and collapsing of "." and ".."
\* against the root, is outside the root directory.
C2_EscapingPathRejected ==
    (rOut # NotCalled /\ ~Under(DirOf(rRoot), TargetOf(rRoot, rPath)))
        => rOut.error = InvalidPathError

\* a traversal hidden behind a nested segment (b/../../bc) has been rejected
C2_Witness ==
    /\ rPath = <<"b", "/", ".", ".", "/", ".", ".", "/", "b", "c">>
    /\ rRoot = <<"/", "a", "/", "b">>
    /\ rOut.error = InvalidPathError

\* C3: for every root directory and every relative path that stays inside
\* the root, resolveProjectPath does not fail and returns the root joined
\* with the collapsed segments of the path.
C3_InsidePathResolved ==
    (rOut # NotCalled /\ IsRelative(rPath)
        /\ Under(DirOf(rRoot), TargetOf(rRoot, rPath)))
        => (rOut.error = NoError /\ rOut.path = PathOf(TargetOf(rRoot, rPath)))

\* the same, for root directories other than the filesystem root
C3_InsidePathResolvedBelowFsRoot ==
    (rOut # NotCalled /\ IsRelative(rPath) /\ DirOf(rRoot) # <<>>
        /\ Under(DirOf(rRoot), TargetOf(rRoot, rPath)))
        => (rOut.error = NoError /\ rOut.path = PathOf(TargetOf(rRoot, rPath)))

\* ------------------------------------------------ claims about the engine
\* the location of a resolved absolute path
LocOf(q) == Go(<<>>, Split(q))

\* q is the root directory or lies below it
InRoot(q) == Under(DirOf(rootDir), LocOf(q))

\* q is a directory above the root directory
AboveRoot(q) == Under(LocOf(q), DirOf(rootDir)) /\ LocOf(q) # DirOf(rootDir)

\* the paths at which the filesystem differs from the one the call began with
CreatedDirs == dirs \ dirs0

MutatedPaths ==
    (dirs \ dirs0) \cup (dirs0 \ dirs)
    \cup { q \in DOMAIN files \cup DOMAIN files0 :
             ~(q \in DOMAIN files /\ q \in DOMAIN files0 /\ files[q] = files0[q]) }

\* where change i of the current call leads
TargetLoc(i) == TargetOf(rootDir, changes[i].path)

Escapes(i) == ~Under(DirOf(rootDir), TargetLoc(i))

Finished == outcome \notin {"idle", "running"}

\* C1 as stated: whatever a call has created, modified or removed so far is
\* the root directory or lies below it.
C1_MutationsInsideRoot == \A q \in MutatedPaths : InRoot(q)

\* C1: whatever a call has created, modified or removed so far is the root
\* directory or lies below it, except that directories above a root that did
\* not exist may have been created; no file outside the root is touched.
C1_MutationsInsideRootOrRootAncestors ==
    \A q \in MutatedPaths :
        \/ InRoot(q)
        \/ q \in CreatedDirs /\ AboveRoot(q) /\ rootDir \notin dirs0

\* a write-mode call on a root whose parent was missing has created the
\* file a below the root, and the parent with it
C1_Witness ==
    /\ outcome = "returned" /\ ~dryRun
    /\ <<"/", "n">> \in CreatedDirs
    /\ (EngineRoot \o <<"/", "a">>) \in DOMAIN files

\* C4: in a returned summary the four counts add up to operations.length,
\* which is the number of input changes, and each count is the number of
\* operations with that status.
C4_CountsTallyOperations ==
    summary # <<>> =>
        LET s == summary[1]
        IN  /\ s.counts.created + s.counts.updated + s.counts.deleted + s.counts.skipped
                 = Len(s.operations)
            /\ Len(s.operations) = Len(changes)
            /\ \A st \in Statuses :
                 s.counts[st] = Cardinality({ i \in 1..Len(s.operations) :
                                                s.operations[i].status = st })

\* a summary of two changes, one written and one skipped
C4_Witness ==
    /\ summary # <<>>
    /\ Len(changes) = 2
    /\ summary[1].counts.created = 1
    /\ summary[1].counts.skipped = 1

\* C5: a returned summary has one result per input change, in input order,
\* and result i carries input change i with all its fields.
C5_OperationsEchoChanges ==
    summary # <<>> =>
        /\ Len(summary[1].operations) = Len(changes)
        /\ \A i \in 1..Len(changes) :
             /\ DOMAIN summary[1].operations[i].change = DOMAIN changes[i]
             /\ summary[1].operations[i].change = changes[i]

\* a summary of two different changes, the second one carrying a note
C5_Witness ==
    /\ summary # <<>>
    /\ Len(changes) = 2
    /\ changes[1].action = "delete"
    /\ "note" \in DOMAIN changes[2]
    /\ summary[1].operations[2].change.note = "n"

\* C6: during and after a dry-run call, returned or aborted, the filesystem
\* is the one the call began with.
C6_DryRunLeavesFilesystem ==
    (dryRun /\ outcome # "idle") => (dirs = dirs0 /\ files = files0)

\* a dry-run create of d/a has been reported as created and the root has
\* no directory d
C6_Witness ==
    /\ dryRun /\ outcome = "returned"
    /\ changes = <<[path |-> <<"d", "/", "a">>, action |-> "create", content |-> "x"]>>
    /\ summary[1].operations[1].status = "created"
    /\ EngineRoot \in dirs
    /\ (EngineRoot \o <<"/", "d">>) \notin dirs

\* the resolved path change i of the current call is aimed at
TargetPath(i) == PathOf(TargetLoc(i))

WritesContent(c) == c.action \in {"create", "update"} /\ "content" \in DOMAIN c

LacksContent(c) == c.action \in {"create", "update"} /\ "content" \notin DOMAIN c

SkippedForMissingContent(op) ==
    /\ op.status = "skipped"
    /\ op.message = "Missing content for create/update action."

\* C8 as stated: the turn of a create or update without content records a
\* skipped result with the missing-content message and leaves the
\* filesystem alone, in both modes.
C8_MissingContentSkipped ==
    [][(outcome = "running" /\ LacksContent(changes[Len(operations) + 1]))
        => /\ outcome' \in {"running", "returned"}
           /\ Len(operations') = Len(operations) + 1
           /\ SkippedForMissingContent(operations'[Len(operations')])
           /\ dirs' = dirs /\ files' = files]_vars

\* C8: the turn of a create or update without content leaves the filesystem
\* alone in both modes; it records a skipped result with the missing-content
\* message when the path stays inside the root, and aborts the call with
\* InvalidPathError, recording nothing, when the path escapes it.
C8_MissingContentSkippedInsideRoot ==
    [][(outcome = "running" /\ LacksContent(changes[Len(operations) + 1]))
        => /\ dirs' = dirs /\ files' = files
           /\ IF Escapes(Len(operations) + 1)
              THEN outcome' = InvalidPathError /\ operations' = operations
              ELSE /\ outcome' \in {"running", "returned"}
                   /\ Len(operations') = Len(operations) + 1
                   /\ SkippedForMissingContent(operations'[Len(operations')])]_vars

\* a write-mode create of d/a without content has been skipped and the root
\* has no directory d
C8_Witness ==
    /\ outcome = "returned" /\ ~dryRun
    /\ changes = <<[path |-> <<"d", "/", "a">>, action |-> "create"]>>
    /\ SkippedForMissingContent(summary[1].operations[1])
    /\ EngineRoot \in dirs
    /\ (EngineRoot \o <<"/", "d">>) \notin dirs

\* C9: a write-mode delete of a path inside the root at which there is a
\* regular file or no file does not raise: it reports deleted with the
\* "(or already absent)" message and the file is absent afterwards; so it
\* is for the first and for the second of two deletes in succession.
C9_DeleteNeverRaises ==
    (Finished /\ ~dryRun /\ Len(changes) = 1 /\ changes[1].action = "delete"
        /\ ~Escapes(1) /\ TargetPath(1) \notin dirs0)
        => /\ outcome = "returned"
           /\ operations[1].status = "deleted"
           /\ operations[1].message = "File deleted (or already absent)."
           /\ TargetPath(1) \notin DOMAIN files

FirstEscape == CHOOSE k \in 1..Len(changes) :
                   Escapes(k) /\ \A j \in 1..(k - 1) : ~Escapes(j)

SomeEscapes == \E i \in 1..Len(changes) : Escapes(i)

\* C10 as stated: a call whose batch has an escaping path throws
\* InvalidPathError at the first such change, returns no summary and
\* processes no change after it.
C10_EscapeThrowsInvalidPath ==
    (outcome # "idle" /\ SomeEscapes)
        => /\ summary = <<>>
           /\ Len(operations) < FirstEscape
           /\ Finished => (outcome = InvalidPathError /\ Len(operations) = FirstEscape - 1)

\* C10: a call whose batch has an escaping path returns no summary and
\* processes no change after the first such change; it throws
\* InvalidPathError at that change, unless an earlier change has already
\* aborted the call with FileSystemOperationError.
C10_EscapeAbortsWithoutSummary ==
    (outcome # "idle" /\ SomeEscapes)
        => /\ summary = <<>>
           /\ outcome # "returned"
           /\ Len(operations) < FirstEscape
           /\ Len(logged) <= Len(operations)
           /\ Finished =>
                \/ outcome = InvalidPathError /\ Len(operations) = FirstEscape - 1
                \/ outcome = FileSystemOperationError /\ Len(operations) < FirstEscape - 1

\* a write-mode call has written a and then thrown InvalidPathError at the
\* second change, returning no summary
C10_Witness ==
    /\ outcome = InvalidPathError /\ ~dryRun
    /\ Len(changes) = 2 /\ Len(operations) = 1
    /\ operations[1].status = "created"
    /\ TargetPath(1) \in DOMAIN files /\ TargetPath(1) \notin DOMAIN files0
    /\ summary = <<>>

\* the change the loop of the current call is at, and where it is aimed
NextIndex == Len(operations) + 1

NextChange == changes[NextIndex]

\* the write of a file at q, the making of its directories included, fails
WriteFails(q) ==
    LET made == ensureDirectoryExists(q, dirs, files)
    IN  made.error # NoError \/ fsWriteFile(q, "", made.dirs, files).error # NoError

\* there is neither a file nor a directory at q
NothingAt(q) == q \notin DOMAIN files /\ q \notin dirs

\* C11: in write mode a write that fails, at the making of the directories
\* or at the file, and a delete that fails with anything but "no such file",
\* end the call with FileSystemOperationError: no result is recorded for
\* the change and no summary is returned; a delete that failed is taken as
\* done only where nothing was at the target.
C11_FilesystemFailureAborts ==
    [][/\ (outcome = "running" /\ ~dryRun /\ ~Escapes(NextIndex)) =>
            LET q == TargetPath(NextIndex)
                aborted == /\ outcome' = FileSystemOperationError
                           /\ summary' = <<>>
                           /\ operations' = operations
            IN  /\ (WritesContent(NextChange) /\ WriteFails(q)) => aborted
                /\ (NextChange.action = "delete"
                      /\ fsUnlink(q, dirs, files).error \notin {NoError, "ENOENT"})
                        => aborted
                /\ (NextChange.action = "delete" /\ q \notin DOMAIN files
                      /\ outcome' # FileSystemOperationError) => NothingAt(q)
                /\ (NextChange.action = "delete"
                      /\ fsUnlink(q, dirs, files).error = "ENOENT")
                        => /\ outcome' \in {"running", "returned"}
                           /\ operations'[NextIndex].status = "deleted"
       /\ outcome = FileSystemOperationError =>
            /\ summary = <<>>
            /\ Len(operations) < Len(changes)
            /\ ~dryRun]_vars

\* a write-mode call has made d a file and has then failed to write d/a,
\* returning no summary
C11_Witness ==
    /\ outcome = FileSystemOperationError /\ ~dryRun
    /\ Len(changes) = 2 /\ Len(operations) = 1
    /\ changes[2] = [path |-> <<"d", "/", "a">>, action |-> "create", content |-> "x"]
    /\ TargetPath(1) \in DOMAIN files
    /\ TargetPath(1) = dirname(TargetPath(2))
    /\ summary = <<>>

\* the string the logger is to be given for change c
EventOf(c) ==
    << IF c.action = "create" THEN "CREATE"
       ELSE IF c.action = "update" THEN "UPDATE"
       ELSE IF c.action = "delete" THEN "DELETE"
       ELSE "SKIP (noop)",
       ": ", c.path >>

\* the events of the changes of cs that are not a create or an update
\* without content, in the order of cs
RECURSIVE EventsOf(_)
EventsOf(cs) ==
    IF cs = <<>> THEN <<>>
    ELSE (IF LacksContent(Head(cs)) THEN <<>> ELSE <<EventOf(Head(cs))>>)
             \o EventsOf(Tail(cs))

\* C12 as stated: when a summary is returned the logger has been called
\* once for each input change, call i describing change i, in both modes.
C12_OneEventPerChange ==
    summary # <<>> =>
        /\ Len(logged) = Len(changes)
        /\ \A i \in 1..Len(changes) : logged[i] = EventOf(changes[i])

\* C12: when a summary is returned the logger has been called once for
\* each input change that is not a create or an update without content,
\* in input order, each call describing its change, in both modes; for a
\* create or an update without content it has not been called.
C12_OneEventPerAnnouncedChange ==
    summary # <<>> => logged = EventsOf(changes)

\* a write-mode call of a create without content and a delete has returned
\* a summary of two results and the logger has heard of the delete only
C12_Witness ==
    /\ summary # <<>> /\ ~dryRun
    /\ changes = << [path |-> <<"d", "/", "a">>, action |-> "create"],
                    [path |-> <<"a">>, action |-> "delete"] >>
    /\ Len(summary[1].operations) = 2
    /\ logged = << <<"DELETE", ": ", <<"a">>>> >>

\* the changes of the current call that write or remove the file at q
EffectiveOn(q) ==
    { i \in 1..Len(changes) :
        /\ ~Escapes(i)
        /\ TargetPath(i) = q
        /\ (WritesContent(changes[i]) \/ changes[i].action = "delete") }

LastOn(q) == CHOOSE i \in EffectiveOn(q) : \A j \in EffectiveOn(q) : j <= i

\* the file at q is in F what it is in G
SameFileAt(q, F, G) ==
    /\ q \in DOMAIN F <=> q \in DOMAIN G
    /\ q \in DOMAIN F => F[q] = G[q]

\* C13: after a write-mode call that returned a summary, the file at every
\* path is what the last create or update with content, or delete, aimed at
\* that path in the list made of it, and is what it was where the list has
\* none; a create with content followed by a delete of the same path gives
\* the counts created 1, updated 0, deleted 1, skipped 0 and no file.
C13_LastChangeWins ==
    (outcome = "returned" /\ ~dryRun) =>
        /\ \A q \in DOMAIN files \cup DOMAIN files0
                      \cup { TargetPath(i) : i \in 1..Len(changes) } :
             IF EffectiveOn(q) = {} THEN SameFileAt(q, files, files0)
             ELSE IF changes[LastOn(q)].action = "delete" THEN q \notin DOMAIN files
             ELSE q \in DOMAIN files /\ files[q] = changes[LastOn(q)].content
        /\ (Len(changes) = 2 /\ changes[1].action = "create" /\ WritesContent(changes[1])
              /\ changes[2].action = "delete" /\ changes[2].path = changes[1].path)
             => /\ summary[1].counts =
                     [created |-> 1, updated |-> 0, deleted |-> 1, skipped |-> 0]
                /\ TargetPath(1) \notin DOMAIN files

\* a write-mode create of a with content followed by a delete of a has
\* returned the counts 1, 0, 1, 0 and there is no file a
C13_Witness ==
    /\ outcome = "returned" /\ ~dryRun /\ Len(changes) = 2
    /\ changes[1].path = <<"a">> /\ changes[1].action = "create"
    /\ "content" \in DOMAIN changes[1]
    /\ changes[2] = [path |-> <<"a">>, action |-> "delete"]
    /\ summary[1].counts = [created |-> 1, updated |-> 0, deleted |-> 1, skipped |-> 0]
    /\ (EngineRoot \o <<"/", "a">>) \notin DOMAIN files

\* c is skipped for what it is: a create or an update without content, a
\* noop, or an action the engine does not know
StructuralSkip(c) ==
    LacksContent(c) \/ c.action \notin {"create", "update", "delete"}

\* the turn has recorded a skipped result and the loop goes on to the next
\* change, or returns after the last
SkippedAndGoesOn ==
    /\ Len(operations') = NextIndex
    /\ operations'[NextIndex].status = "skipped"
    /\ operations'[NextIndex].change = NextChange
    /\ outcome' = IF NextIndex = Len(changes) THEN "returned" ELSE "running"

\* C14 as stated: the turn of a create or an update without content, of a
\* noop and of an unknown action never fails; it records a skipped result
\* and the loop goes on.
C14_StructuralSkipNeverFails ==
    [][(outcome = "running" /\ StructuralSkip(NextChange)) => SkippedAndGoesOn]_vars

\* C14: the turn of a create or an update without content, of a noop and of
\* an unknown action whose path stays inside the root never fails; it
\* records a skipped result and the loop goes on; when the path escapes the
\* root the call ends with InvalidPathError and records nothing.
C14_StructuralSkipInsideRootNeverFails ==
    [][(outcome = "running" /\ StructuralSkip(NextChange)) =>
          IF Escapes(NextIndex)
          THEN outcome' = InvalidPathError /\ operations' = operations
          ELSE SkippedAndGoesOn]_vars

\* a write-mode call has skipped an unknown action and has gone on to
\* create the file d
C14_Witness ==
    /\ outcome = "returned" /\ ~dryRun /\ Len(changes) = 2
    /\ changes[1] = [path |-> <<"d", "/", "a">>, action |-> "rename"]
    /\ operations[1].status = "skipped"
    /\ operations[2].status = "created"
    /\ (EngineRoot \o <<"/", "d">>) \in DOMAIN files

\* ------------------------------------------------ claims about runCommand
\* applyAgentResult has been invoked by the current run
Applied == outcome # "idle"

C16_YesAppliesChanges ==
    (options.yes = "true" /\ Applied) => ~dryRun

\* C17: a run whose task type is chat or whose result is in chat mode never
\* invokes applyAgentResult and leaves the filesystem as it was, whatever
\* the write option; applyAgentResult is invoked only for a result in
\* execution mode.
C17_ChatModeMakesNoEdits ==
    /\ (task.taskType = "chat" \/ result.mode = "chat") =>
          /\ ~Applied
          /\ dirs = dirs0 /\ files = files0
    /\ Applied => result.mode = "execution"

\* a run of a chat task with the write option set has got a result in
\* execution mode with file changes and has returned without applying them
C17_Witness ==
    /\ pc = "exited" /\ options.write = "true"
    /\ task.taskType = "chat"
    /\ result.mode = "execution" /\ result.files # <<>>
    /\ ~Applied
    /\ caught = "nothing"

\* C18: a run in which the task input, the loading of the task, the runtime
\* or the application of the file changes has failed, or whose result has
\* an error phase in its trace, ends with exit code 1.
C18_ErrorsExitNonZero ==
    (pc = "exited" /\ (caught # "nothing" \/ hasErrorTrace(result)))
        => exitCode = 1

\* the same, for the runs that are not in chat mode
C18_ErrorsExitNonZeroOutsideChat ==
    (pc = "exited" /\ task.taskType # "chat" /\ result.mode # "chat"
        /\ (caught # "nothing" \/ hasErrorTrace(result)))
        => exitCode = 1

\* -------------------------------------------- more claims about the engine
\* the status that goes with the action of c and the presence of a content
StatusOf(c) ==
    IF c.action = "create" /\ "content" \in DOMAIN c THEN "created"
    ELSE IF c.action = "update" /\ "content" \in DOMAIN c THEN "updated"
    ELSE IF c.action = "delete" THEN "deleted"
    ELSE "skipped"

\* C19: every result recorded, in dry-run and in write mode and whatever
\* the filesystem holds, has the status that goes with the action of its
\* change and the presence of a content, an empty content being a content.
C19_StatusFromActionAndContent ==
    \A i \in 1..Len(operations) : operations[i].status = StatusOf(changes[i])

\* a dry-run update of d with the empty string, d not being there, has been
\* reported as updated
C19_Witness ==
    /\ outcome = "returned" /\ dryRun
    /\ changes = <<[path |-> <<"d">>, action |-> "update", content |-> ""]>>
    /\ (EngineRoot \o <<"/", "d">>) \notin DOMAIN files0
    /\ summary[1].operations[1].status = "updated"

\* change c with create and update exchanged
Twin(c) == [c EXCEPT !.action = IF @ = "create" THEN "update" ELSE "create"]

\* C20: a write-mode call of one create or update with content ends as the
\* call of its twin, update for create and create for update, on the same
\* filesystem would: with the same error or none and the same files and
\* directories; when it returns, the file holds the given content and the
\* status is created for a create and updated for an update, whether or not
\* the file was there before.
C20_UpdateBehavesAsCreate ==
    (Finished /\ ~dryRun /\ Len(changes) = 1 /\ WritesContent(changes[1])) =>
        LET twin == applySingleChange(Twin(changes[1]), rootDir, FALSE, dirs0, files0)
        IN  /\ outcome = IF twin.error = NoError THEN "returned" ELSE twin.error
            /\ dirs = twin.dirs
            /\ files = twin.files
            /\ outcome = "returned" =>
                 /\ TargetPath(1) \in DOMAIN files
                 /\ files[TargetPath(1)] = changes[1].content
                 /\ operations[1].status =
                      IF changes[1].action = "create" THEN "created" ELSE "updated"

\* a write-mode update of a file a that was not there has created it with
\* the given content and has reported updated
C20_Witness ==
    /\ outcome = "returned" /\ ~dryRun
    /\ changes = <<[path |-> <<"a">>, action |-> "update", content |-> "x"]>>
    /\ (EngineRoot \o <<"/", "a">>) \notin DOMAIN files0
    /\ files[EngineRoot \o <<"/", "a">>] = "x"
    /\ operations[1].status = "updated"

\* the paths of the directories above the location loc, the filesystem
\* root included
DirsAbove(loc) == { PathOf(SubSeq(loc, 1, n)) : n \in 0..(Len(loc) - 1) }

\* C21: a write-mode turn of a create or an update with content that
\* completes leaves every directory above the target in place, the file at
\* the target holding exactly the given content, the empty string included,
\* every other file as it was, and no directory made but those above the
\* target.
C21_WritePostcondition ==
    [][(outcome = "running" /\ ~dryRun /\ WritesContent(NextChange)
          /\ outcome' \in {"running", "returned"}) =>
            LET q == TargetPath(NextIndex)
            IN  /\ DirsAbove(TargetLoc(NextIndex)) \subseteq dirs'
                /\ dirs' = dirs \cup DirsAbove(TargetLoc(NextIndex))
                /\ DOMAIN files' = DOMAIN files \cup {q}
                /\ files'[q] = NextChange.content
                /\ \A o \in DOMAIN files \ {q} : files'[o] = files[o]]_vars

\* a write-mode create of d/a in a root that had no directory d has made
\* the directory and the file, and the file beside the root is as it was
C21_Witness ==
    /\ outcome = "returned" /\ ~dryRun
    /\ changes = <<[path |-> <<"d", "/", "a">>, action |-> "create", content |-> "x"]>>
    /\ EngineRoot \in dirs0
    /\ (EngineRoot \o <<"/", "d">>) \notin dirs0
    /\ (EngineRoot \o <<"/", "d">>) \in dirs
    /\ files[EngineRoot \o <<"/", "d", "/", "a">>] = "x"
    /\ files[<<"/", "n", "/", "x">>] = "o"

\* c is a noop or has an action the engine does not know
NoAction(c) == c.action \notin {"create", "update", "delete"}

\* the turn has recorded the noop result of the change it was at and has
\* told the logger of it
NoopRecorded ==
    /\ outcome' \in {"running", "returned"}
    /\ Len(operations') = NextIndex
    /\ operations'[NextIndex].status = "skipped"
    /\ operations'[NextIndex].message = "No action (noop)."
    /\ logged' = Append(logged, <<"SKIP (noop)", ": ", NextChange.path>>)

\* C22 as stated: the turn of a noop or of an unknown action leaves the
\* filesystem as it is in both modes, records skipped with the message
\* 'No action (noop).' and gives the logger 'SKIP (noop): <path>'.
C22_NoopFrame ==
    [][(outcome = "running" /\ NoAction(NextChange)) =>
          /\ dirs' = dirs /\ files' = files
          /\ NoopRecorded]_vars

\* C22: the turn of a noop or of an unknown action leaves the filesystem as
\* it is in both modes; when the path stays inside the root it records
\* skipped with the message 'No action (noop).' and gives the logger
\* 'SKIP (noop): <path>'; when the path escapes the root the call ends with
\* InvalidPathError, with no result and no word to the logger.
C22_NoopFrameInsideRoot ==
    [][(outcome = "running" /\ NoAction(NextChange)) =>
          /\ dirs' = dirs /\ files' = files
          /\ IF Escapes(NextIndex)
             THEN /\ outcome' = InvalidPathError
                  /\ operations' = operations
                  /\ logged' = logged
             ELSE NoopRecorded]_vars

\* a write-mode call of an unknown action on d/a has recorded the noop
\* result, the logger has heard of it and nothing has changed
C22_Witness ==
    /\ outcome = "returned" /\ ~dryRun
    /\ changes = <<[path |-> <<"d", "/", "a">>, action |-> "rename"]>>
    /\ operations[1].message = "No action (noop)."
    /\ logged = << <<"SKIP (noop)", ": ", <<"d", "/", "a">>>> >>
    /\ dirs = dirs0 /\ files = files0

\* ------------------------------------------ more claims about the resolver
\* the names relativePath is made of, either separator accepted
Segments(p) == Split([i \in 1..Len(p) |-> IF p[i] = "\\" THEN "/" ELSE p[i]])

\* p has a name that starts with two dots and goes on
HasDottedName(p) ==
    \E i \in 1..Len(Segments(p)) :
        LET n == Segments(p)[i]
        IN  Len(n) > 2 /\ n[1] = "." /\ n[2] = "."

\* p has a segment that is two dots
HasParentSegment(p) == \E i \in 1..Len(Segments(p)) : Segments(p)[i] = <<".", ".">>

\* C23: a relative path with a name that merely starts with two dots, or
\* with two-dot segments, that leads to a location inside the root is
\* accepted for every root, and resolves to that location.
C23_ResolvedPathDecides ==
    (rOut # NotCalled /\ IsRelative(rPath)
        /\ (HasDottedName(rPath) \/ HasParentSegment(rPath))
        /\ Under(DirOf(rRoot), TargetOf(rRoot, rPath)))
        => (rOut.error = NoError /\ rOut.path = PathOf(TargetOf(rRoot, rPath)))

\* the same, for root directories other than the filesystem root
C23_ResolvedPathDecidesBelowFsRoot ==
    (rOut # NotCalled /\ IsRelative(rPath) /\ DirOf(rRoot) # <<>>
        /\ (HasDottedName(rPath) \/ HasParentSegment(rPath))
        /\ Under(DirOf(rRoot), TargetOf(rRoot, rPath)))
        => (rOut.error = NoError /\ rOut.path = PathOf(TargetOf(rRoot, rPath)))

\* the name ..b has been resolved to /a/b/..b under the root /a/b
C23_DottedNameAccepted ==
    /\ rRoot = <<"/", "a", "/", "b">>
    /\ rPath = <<".", ".", "b">>
    /\ rOut = [error |-> NoError, path |-> <<"/", "a", "/", "b", "/", ".", ".", "b">>]

\* the canonical root and the resolved path, as strings
CanonicalRoot == PathOf(DirOf(rRoot))

ResolvedPath == PathOf(TargetOf(rRoot, rPath))

\* C24: resolveProjectPath returns the resolved path when it is the
\* canonical root or begins with the canonical root followed by a separator,
\* and fails with InvalidPathError otherwise; '.' and '' are accepted, and a
\* path into a sibling directory whose name begins with the name of the
\* root is rejected.
C24_RootOrRootAndSeparator ==
    rOut # NotCalled =>
        /\ IF ResolvedPath = CanonicalRoot
              \/ StartsWith(ResolvedPath, CanonicalRoot \o <<"/">>)
           THEN rOut = [error |-> NoError, path |-> ResolvedPath]
           ELSE rOut.error = InvalidPathError
        /\ rPath \in {<<>>, <<".">>} => rOut = [error |-> NoError, path |-> CanonicalRoot]
        /\ (rRoot = <<"/", "a", "/", "b">>
              /\ rPath = <<".", ".", "/", "b", "c", "/", "b">>)
             => rOut.error = InvalidPathError

\* the path ../bc/b has been rejected under the root /a/b
C24_Witness ==
    /\ rRoot = <<"/", "a", "/", "b">>
    /\ rPath = <<".", ".", "/", "b", "c", "/", "b">>
    /\ rOut.error = InvalidPathError

\* p with every backslash replaced by a forward slash
Slashed(p) == [i \in 1..Len(p) |-> IF p[i] = "\\" THEN "/" ELSE p[i]]

HasBackslash(p) == \E i \in 1..Len(p) : p[i] = "\\"

\* C25: for every root and path, resolveProjectPath has the outcome, the
\* resolved path or InvalidPathError, that it has for the path with every
\* backslash replaced by a forward slash; no backslash is left in a
\* resolved path.
C25_BackslashAsSlash ==
    rOut # NotCalled =>
        /\ rOut = resolveProjectPath(rRoot, Slashed(rPath))
        /\ ~HasBackslash(rOut.path)

\* the traversal ..\bc has been rejected under the root /a/b, as ../bc is
C25_Witness ==
    /\ rRoot = <<"/", "a", "/", "b">>
    /\ rPath = <<".", ".", "\\", "b", "c">>
    /\ rOut.error = InvalidPathError
    /\ resolveProjectPath(rRoot, <<".", ".", "/", "b", "c">>).error = InvalidPathError

\* ------------------------------------ claims about the engine, continued
\* C26: the dryRun of a returned summary is options.dryRun when the caller
\* gave it and false when the caller left it out, whatever the changes
\* were, an empty list and a list of skipped changes included.
C26_SummaryDryRunIsOption ==
    summary # <<>> =>
        summary[1].dryRun = IF optionsDryRun = Undefined THEN FALSE
                            ELSE optionsDryRun = "true"

\* a call without the dryRun option and with an empty list has returned a
\* summary that is not a dry run
C26_Witness ==
    /\ outcome = "returned"
    /\ optionsDryRun = Undefined
    /\ changes = <<>>
    /\ summary[1].operations = <<>>
    /\ summary[1].dryRun = FALSE

\* the filesystem the first n changes of the current call make, in write
\* mode, of the one the call began with
RECURSIVE AfterFirst(_)
AfterFirst(n) ==
    IF n = 0 THEN [error |-> NoError, dirs |-> dirs0, files |-> files0]
    ELSE LET before == AfterFirst(n - 1)
             r == applySingleChange(changes[n], rootDir, FALSE, before.dirs, before.files)
         IN  IF before.error # NoError THEN before
             ELSE [error |-> r.error, dirs |-> r.dirs, files |-> r.files]

Aborted == outcome \in {InvalidPathError, FileSystemOperationError}

\* C27: when a write-mode call has ended with an error at change k, the
\* files are those the changes before k have made, the directories are
\* those they have made and at most some of those above the target of
\* change k, and results and events are those of the changes before k.
C27_NoRollback ==
    (Aborted /\ ~dryRun) =>
        LET k == NextIndex
            before == AfterFirst(k - 1)
        IN  /\ before.error = NoError
            /\ files = before.files
            /\ before.dirs \subseteq dirs
            /\ dirs \subseteq before.dirs
                    \cup (IF Escapes(k) THEN {} ELSE DirsAbove(TargetLoc(k)))
            /\ \A i \in 1..(k - 1) : operations[i].change = changes[i]
            /\ logged = EventsOf(SubSeq(changes, 1, k - 1))
            /\ summary = <<>>

\* a write-mode call has created d/a and has then failed to delete the
\* directory d: the file d/a is still there
C27_Witness ==
    /\ outcome = FileSystemOperationError /\ ~dryRun
    /\ changes = << [path |-> <<"d", "/", "a">>, action |-> "create", content |-> "x"],
                    [path |-> <<"d">>, action |-> "delete"] >>
    /\ (EngineRoot \o <<"/", "d", "/", "a">>) \notin DOMAIN files0
    /\ files[EngineRoot \o <<"/", "d", "/", "a">>] = "x"
    /\ Len(operations) = 1

\* C28: a change whose path leaves the root ends the call with
\* InvalidPathError, whatever its action, its content and the mode, with no
\* directory or file touched, no event emitted and no result recorded.
C28_PathCheckedFirst ==
    [][ (outcome = "running" /\ Escapes(NextIndex)) =>
            /\ outcome' = InvalidPathError
            /\ dirs' = dirs /\ files' = files
            /\ logged' = logged
            /\ operations' = operations
            /\ summary' = <<>> ]_vars

\* a dry run has ended with InvalidPathError on a noop change whose path
\* leaves the root
C28_Witness ==
    /\ outcome = InvalidPathError /\ dryRun
    /\ Escapes(NextIndex)
    /\ NoAction(changes[NextIndex])
    /\ dirs = dirs0 /\ files = files0 /\ logged = <<>>

\* the change the call is at writes or removes a file
Effective(c) == WritesContent(c) \/ c.action = "delete"

\* the turn has left the filesystem as the change asked
EffectDone(c, q) ==
    IF c.action = "delete" THEN q \notin DOMAIN files'
    ELSE q \in DOMAIN files' /\ files'[q] = c.content

\* C29: in write mode, a turn at a create or update with content or at a
\* delete emits the event of that change, and no other, only with the
\* effect in place and the result recorded, and emits it whenever the
\* change did not fail; a turn that ends with an error emits no event and
\* records no result.
C29_EventAfterEffect ==
    [][ (outcome = "running" /\ ~dryRun /\ ~Escapes(NextIndex) /\ Effective(NextChange)) =>
            /\ logged' # logged =>
                   /\ logged' = Append(logged, EventOf(NextChange))
                   /\ outcome' \in {"running", "returned"}
                   /\ EffectDone(NextChange, TargetPath(NextIndex))
                   /\ Len(operations') = NextIndex
                   /\ SubSeq(operations', 1, Len(operations)) = operations
                   /\ operations'[NextIndex].change = NextChange
            /\ outcome' \in {"running", "returned"} => logged' # logged
            /\ outcome' = FileSystemOperationError =>
                   logged' = logged /\ operations' = operations ]_vars

\* a write-mode call has written a first file and told the logger of it,
\* and has failed to delete a directory: the logger was told of nothing else
C29_Witness ==
    /\ outcome = FileSystemOperationError /\ ~dryRun
    /\ Len(changes) = 2 /\ Len(operations) = 1
    /\ WritesContent(changes[1]) /\ changes[2].action = "delete"
    /\ TargetPath(2) \in dirs
    /\ TargetPath(1) \in DOMAIN files /\ files[TargetPath(1)] = changes[1].content
    /\ logged = <<EventOf(changes[1])>>

\* the first n changes of the current call applied once more, in write
\* mode, to the filesystem as it is now
RECURSIVE AppliedAgain(_)
AppliedAgain(n) ==
    IF n = 0 THEN [error |-> NoError, statuses |-> <<>>, dirs |-> dirs, files |-> files]
    ELSE LET before == AppliedAgain(n - 1)
             r == applySingleChange(changes[n], rootDir, FALSE, before.dirs, before.files)
         IN  IF before.error # NoError THEN before
             ELSE [error |-> r.error,
                   statuses |-> before.statuses
                                \o [i \in 1..Len(r.op) |-> r.op[i].status],
                   dirs |-> r.dirs, files |-> r.files]

\* the second application returns, with the statuses and the counts of the
\* first, and leaves the filesystem as the first has left it
SameAgain ==
    LET again == AppliedAgain(Len(changes))
    IN  /\ again.error = NoError
        /\ again.statuses = [i \in 1..Len(operations) |-> operations[i].status]
        /\ \A st \in Statuses :
               Cardinality({i \in 1..Len(again.statuses) : again.statuses[i] = st})
                   = summary[1].counts[st]
        /\ again.dirs = dirs
        /\ again.files = files

\* no change that writes or removes a file has its target below the target
\* of another such change
NoTargetBelowAnother ==
    \A i, j \in 1..Len(changes) :
        (Effective(changes[i]) /\ Effective(changes[j])
            /\ TargetLoc(i) # TargetLoc(j)) => ~Under(TargetLoc(i), TargetLoc(j))

\* C30 as stated: a change list that a write-mode call has applied can be
\* applied again in write mode to the filesystem it has left: the second
\* call returns the same statuses and counts and leaves the filesystem as
\* it was.
C30_ReapplyIdempotent ==
    (outcome = "returned" /\ ~dryRun) => SameAgain

\* C30: the same, for the change lists in which no target of a write or of
\* a delete lies below the target of another.
C30_ReapplyIdempotentApart ==
    (outcome = "returned" /\ ~dryRun /\ NoTargetBelowAnother) => SameAgain

\* a write-mode call has written d/a and removed the file a that was there:
\* the filesystem is not the one the call began with, and the list can be
\* applied again
C30_Witness ==
    /\ outcome = "returned" /\ ~dryRun
    /\ changes = << [path |-> <<"d", "/", "a">>, action |-> "create", content |-> "x"],
                    [path |-> <<"a">>, action |-> "delete"] >>
    /\ (EngineRoot \o <<"/", "a">>) \in DOMAIN files0
    /\ (EngineRoot \o <<"/", "a">>) \notin DOMAIN files
    /\ files[EngineRoot \o <<"/", "d", "/", "a">>] = "x"
    /\ NoTargetBelowAnother
    /\ AppliedAgain(2).error = NoError

====
